---- MODULE Spec2Model ----
(***************************************************************************)
(* Procedural mesh generators (cylinder, crystal, staff, cone, cube), the  *)
(* cached vertex normals drawn every frame, and the orbit camera           *)
(* controller of staff_test.                                               *)
(*                                                                         *)
(* f32 values are fixed-point integers: the f32 value v is the integer     *)
(* v * Scale.  u32 values computed without overflow checks are kept as     *)
(* signed representatives modulo 2^32: a negative representative r is the  *)
(* u32 value 2^32 + r.                                                     *)
(***************************************************************************)
EXTENDS Integers, Sequences, FiniteSets, TLC

VARIABLES
    args,              \* the arguments and build of the generator call
    outcome,           \* how the generator call ended
    mesh,              \* the Mesh returned: positions, normals, uvs, indices
    capacity,          \* num_vertices, num_indices computed before the loops
    cylinder_normals,  \* the CylinderNormals resource
    cube_normals,      \* the CubeNormals resource
    gizmos,            \* the arrows drawn by the last display system run
    spawned,           \* the entities spawned, as mesh name and translation
    calls,             \* number of generator calls made outside Startup
    rand,              \* the ChaCha8Rng handed to generate_staff_mesh
    rotation,          \* camera Transform.rotation
    translation,       \* camera Transform.translation
    input,             \* buttons and pointer delta of the last frame
    before,            \* the camera transform at the start of the last frame
    frame              \* number of frames run

meshVars == <<args, outcome, mesh, capacity, cylinder_normals, rand>>
cameraVars == <<rotation, translation, input, before, frame>>
sceneVars == <<cube_normals, gizmos, spawned, calls>>
vars == <<args, outcome, mesh, capacity, cylinder_normals, rand,
          rotation, translation, input, before, frame,
          cube_normals, gizmos, spawned, calls>>

----------------------------------------------------------------------------
(* Bounds of the model *)

MaxRes == 6
MaxSeg == 3
MaxFrames == 3
MaxCalls == 1

----------------------------------------------------------------------------
(* f32 arithmetic in fixed point *)

Scale == 10000

NaN == 1000000001
Inf == 1000000000

IsFinite(x) == x # NaN /\ x # Inf /\ x # -Inf

\* `n as f32`
F(n) == n * Scale

FNeg(x) == IF x = NaN THEN NaN ELSE -x

FMul(x, y) ==
    IF x = NaN \/ y = NaN THEN NaN
    ELSE IF ~IsFinite(x) \/ ~IsFinite(y)
         THEN IF x = 0 \/ y = 0 THEN NaN
              ELSE IF (x > 0) = (y > 0) THEN Inf ELSE -Inf
         ELSE (x * y) \div Scale

FDiv(x, y) ==
    IF x = NaN \/ y = NaN THEN NaN
    ELSE IF ~IsFinite(x) THEN (IF IsFinite(y) THEN x ELSE NaN)
    ELSE IF ~IsFinite(y) THEN 0
    ELSE IF y = 0 THEN (IF x = 0 THEN NaN ELSE IF x > 0 THEN Inf ELSE -Inf)
    ELSE (x * Scale) \div y

FAdd(x, y) ==
    IF x = NaN \/ y = NaN THEN NaN
    ELSE IF ~IsFinite(x) THEN (IF ~IsFinite(y) /\ y # x THEN NaN ELSE x)
    ELSE IF ~IsFinite(y) THEN y
    ELSE x + y

FSub(x, y) == FAdd(x, FNeg(y))

\* f32::sqrt of a non-negative finite value
FSqrt(x) == CHOOSE r \in 0..(2 * Scale + x) :
                r * r <= x * Scale /\ (r + 1) * (r + 1) > x * Scale

\* bevy::math::ops::sin_cos(segment as f32 * (TAU / resolution as f32)),
\* tabulated for resolution 1..8 and segment 0..resolution
SinTable ==
  << <<0, 0>>,
     <<0, 0, 0>>,
     <<0, 8660, -8660, 0>>,
     <<0, 10000, 0, -10000, 0>>,
     <<0, 9511, 5878, -5878, -9511, 0>>,
     <<0, 8660, 8660, 0, -8660, -8660, 0>>,
     <<0, 7818, 9749, 4339, -4339, -9749, -7818, 0>>,
     <<0, 7071, 10000, 7071, 0, -7071, -10000, -7071, 0>> >>

CosTable ==
  << <<10000, 10000>>,
     <<10000, -10000, 10000>>,
     <<10000, -5000, -5000, 10000>>,
     <<10000, 0, -10000, 0, 10000>>,
     <<10000, 3090, -8090, -8090, 3090, 10000>>,
     <<10000, 5000, -5000, -10000, -5000, 5000, 10000>>,
     <<10000, 6235, -2225, -9010, -9010, -2225, 6235, 10000>>,
     <<10000, 7071, 0, -7071, -10000, -7071, 0, 7071, 10000>> >>

sin_cos(segment, resolution) ==
    [sin |-> SinTable[resolution][segment + 1],
     cos |-> CosTable[resolution][segment + 1]]

----------------------------------------------------------------------------
(* Helpers for the loops *)

\* the values pushed by `for i in lo..hi { push(f(i)) }`, as a sequence
RECURSIVE Flatten(_)
Flatten(ss) == IF ss = <<>> THEN <<>> ELSE Head(ss) \o Flatten(Tail(ss))

----------------------------------------------------------------------------
(* cylinder.rs *)

\* debug_assert!(resolution > 2); debug_assert!(resolution > 0);
debug_asserts(resolution) == resolution > 2 /\ resolution > 0

\* The counts computed before the loops, and whether the call survives them:
\* the assertions exist only in a build with debug assertions, a u32
\* subtraction below zero panics only in a build with overflow checks, and
\* a capacity that wrapped around may fail to allocate.
precompute(resolution, segments, build) ==
    LET num_rings == segments + 1
        num_vertices == resolution * 2 + num_rings * (resolution + 1)
        num_faces == resolution * (num_rings - 2)
        num_indices == (2 * num_faces + 2 * (resolution - 1) * 2) * 3
    IN  [abort |->
            IF build.debug_assertions /\ ~debug_asserts(resolution)
            THEN "assertion_failed"
            ELSE IF build.overflow_checks /\ (num_rings - 2 < 0 \/ resolution - 1 < 0)
            THEN "overflow_panic"
            ELSE IF num_indices < 0 /\ ~build.alloc_ok
            THEN "alloc_failed"
            ELSE "none",
         num_rings |-> num_rings,
         num_vertices |-> num_vertices,
         num_indices |-> num_indices]

\* let step_y = 2.0 * half_height / segments as f32;
\* let y = -half_height + ring as f32 * step_y;
ring_y(half_height, segments, ring) ==
    LET step_y == FDiv(FMul(F(2), half_height), F(segments))
    IN  FAdd(FNeg(half_height), FMul(F(ring), step_y))

\* ring_uv with V taken over the number of angular steps
ring_uv_over_resolution(resolution, ring, segment) ==
    <<FDiv(F(segment), F(resolution)), FDiv(F(ring), F(resolution))>>

\* uvs.push([segment as f32 / resolution as f32, ring as f32 / segment as f32])
ring_uv(resolution, ring, segment) ==
    <<FDiv(F(segment), F(resolution)), FDiv(F(ring), F(segment))>>

\* ring_vertices without the seam vertex: `for segment in 0..resolution`
ring_vertices_no_seam(radius, offset, y, resolution, ring) ==
    [k \in 1..resolution |->
        LET segment == k - 1
            sc == sin_cos(segment, resolution)
        IN  [position |-> <<FAdd(FMul(radius, sc.cos), offset[1]), y,
                            FAdd(FMul(radius, sc.sin), offset[2])>>,
             normal |-> <<sc.cos, 0, sc.sin>>,
             uv |-> ring_uv(resolution, ring, segment)]]

\* the body of `for segment in 0..=resolution` for one ring of radius
\* `radius` centred at (offset[1], y, offset[2])
ring_vertices(radius, offset, y, resolution, ring) ==
    [k \in 1..(resolution + 1) |->
        LET segment == k - 1
            sc == sin_cos(segment, resolution)
        IN  [position |-> <<FAdd(FMul(radius, sc.cos), offset[1]), y,
                            FAdd(FMul(radius, sc.sin), offset[2])>>,
             normal |-> <<sc.cos, 0, sc.sin>>,
             uv |-> ring_uv(resolution, ring, segment)]]

\* for ring in 0..num_rings { ... }
cylinder_rings(radius, half_height, resolution, segments, num_rings) ==
    Flatten([r \in 1..num_rings |->
        ring_vertices(radius, <<0, 0>>, ring_y(half_height, segments, r - 1),
                      resolution, r - 1)])

\* the six indices of one quad of the barrel
quad(ring, next_ring, j) ==
    <<ring + j, next_ring + j, ring + j + 1,
      next_ring + j, next_ring + j + 1, ring + j + 1>>

\* barrel_skin leaving the quad at the seam out: `for j in 0..resolution - 1`
barrel_skin_open(resolution, segments) ==
    Flatten([i1 \in 1..segments |->
        LET i == i1 - 1
            ring == i * (resolution + 1)
            next_ring == (i + 1) * (resolution + 1)
        IN  Flatten([j1 \in 1..(resolution - 1) |->
                        quad(ring, next_ring, j1 - 1)])])

\* for i in 0..segments { for j in 0..resolution { indices.extend(...) } }
barrel_skin(resolution, segments) ==
    Flatten([i1 \in 1..segments |->
        LET i == i1 - 1
            ring == i * (resolution + 1)
            next_ring == (i + 1) * (resolution + 1)
        IN  Flatten([j1 \in 1..resolution |-> quad(ring, next_ring, j1 - 1)])])

\* let (y, normal_y, winding) = if top {..} else {..}
cap_winding(top) == IF top THEN <<1, 0>> ELSE <<0, 1>>

cap_normal_y(top) == IF top THEN F(1) ELSE -F(1)

\* cap_indices with the fan run one step too far: `1..=(resolution - 1)`
cap_indices_inclusive(offset, resolution, winding) ==
    Flatten([k \in 1..(resolution - 1) |->
        <<offset, offset + k + winding[1], offset + k + winding[2]>>])

\* for i in 1..(resolution - 1) { indices.extend([offset, offset+i+w.0, offset+i+w.1]) }
cap_indices(offset, resolution, winding) ==
    Flatten([k \in 1..(resolution - 2) |->
        <<offset, offset + k + winding[1], offset + k + winding[2]>>])

\* the vertices pushed by build_cap: `for i in 0..resolution`
cap_vertices(top, radius, centre, half_height, resolution) ==
    [k \in 1..resolution |->
        LET sc == sin_cos(k - 1, resolution)
        IN  [position |-> <<FAdd(FMul(sc.cos, radius), centre[1]),
                            IF top THEN half_height ELSE FNeg(half_height),
                            FAdd(FMul(sc.sin, radius), centre[2])>>,
             normal |-> <<0, cap_normal_y(top), 0>>,
             uv |-> <<FMul(Scale \div 2, FAdd(sc.cos, F(1))),
                      FSub(F(1), FMul(Scale \div 2, FAdd(sc.sin, F(1))))>>]]

\* the closure build_cap(top), called when `offset` vertices have been pushed
build_cap(top, offset, radius, centre, half_height, resolution) ==
    [vertices |-> cap_vertices(top, radius, centre, half_height, resolution),
     indices |-> cap_indices(offset, resolution, cap_winding(top))]

Field(vs, f) == [k \in 1..Len(vs) |-> vs[k][f]]

MakeMesh(vs, indices) ==
    [positions |-> Field(vs, "position"), normals |-> Field(vs, "normal"),
     uvs |-> Field(vs, "uv"), indices |-> indices]

EmptyMesh == [positions |-> <<>>, normals |-> <<>>, uvs |-> <<>>, indices |-> <<>>]

NoCapacity == [num_vertices |-> 0, num_indices |-> 0]

\* rings, barrel and the two caps, top first; the three ring generators
\* share this shape and differ in ring radii and centres
assemble(pre, rings, top_cap, bottom_cap, barrel) ==
    [outcome |-> "returned",
     mesh |-> MakeMesh(rings \o top_cap.vertices \o bottom_cap.vertices,
                       barrel \o top_cap.indices \o bottom_cap.indices),
     capacity |-> [num_vertices |-> pre.num_vertices,
                   num_indices |-> pre.num_indices]]

Aborted(why) == [outcome |-> why, mesh |-> EmptyMesh, capacity |-> NoCapacity]

generate_cylinder_mesh(radius, height, resolution, segments, build) ==
    LET half_height == FDiv(height, F(2))
        pre == precompute(resolution, segments, build)
        rings == cylinder_rings(radius, half_height, resolution, segments,
                                pre.num_rings)
        top == build_cap(TRUE, Len(rings), radius, <<0, 0>>, half_height,
                         resolution)
        bottom == build_cap(FALSE, Len(rings) + resolution, radius, <<0, 0>>,
                            half_height, resolution)
    IN  IF pre.abort # "none" THEN Aborted(pre.abort)
        ELSE assemble(pre, rings, top, bottom, barrel_skin(resolution, segments))

\* push_normals leaving the directions out
push_normals_positions_only(crystal_normals, generated) ==
    [crystal_normals EXCEPT !.positions = @ \o generated.positions]

\* crystal_normals.positions.push and crystal_normals.directions.push, run
\* for every vertex of the rings and of the two caps in the order of the mesh
push_normals(crystal_normals, generated) ==
    [crystal_normals EXCEPT !.positions = @ \o generated.positions,
                            !.directions = @ \o generated.normals]

----------------------------------------------------------------------------
(* crystal.rs *)

\* let segments = 1;
crystal_segments == 1

\* generate_crystal_mesh(radius, height, resolution): the cylinder's code
\* with segments fixed and no normals container
generate_crystal_mesh(radius, height, resolution, build) ==
    LET segments == crystal_segments
        half_height == FDiv(height, F(2))
        pre == precompute(resolution, segments, build)
        rings == cylinder_rings(radius, half_height, resolution, segments,
                                pre.num_rings)
        top == build_cap(TRUE, Len(rings), radius, <<0, 0>>, half_height,
                         resolution)
        bottom == build_cap(FALSE, Len(rings) + resolution, radius, <<0, 0>>,
                            half_height, resolution)
    IN  IF pre.abort # "none" THEN Aborted(pre.abort)
        ELSE assemble(pre, rings, top, bottom, barrel_skin(resolution, segments))

----------------------------------------------------------------------------
(* staff.rs *)

\* The generator: a stream of f32 draws in [0, 1), read cyclically, and the
\* number of draws taken so far.
next_f32(rng, k) == rng.stream[((rng.pos + k) % Len(rng.stream)) + 1]

\* rand.random_range(lo..hi) taking draw number k: lo + (hi - lo) * u
random_range(rng, k, lo, hi) == FAdd(lo, FMul(FSub(hi, lo), next_f32(rng, k)))

\* ring_variance with the bottom ring drawn from the range of the others
ring_variance_one_range(rng, ring, num_rings, radius, radial_variance) ==
    LET bvr == random_range(rng, 0, FSub(radius, radial_variance), radius)
        tvr == random_range(rng, 3, FSub(radius, radial_variance), radius)
        k == 6 + 3 * (ring - 1)
    IN  IF ring = 0 THEN <<bvr, next_f32(rng, 1), next_f32(rng, 2)>>
        ELSE IF ring = num_rings - 1
        THEN <<tvr, next_f32(rng, 4), next_f32(rng, 5)>>
        ELSE <<random_range(rng, k, FSub(radius, radial_variance), radius),
               next_f32(rng, k + 1), next_f32(rng, k + 2)>>

\* (vr, vx, vz) of one ring: the bottom and the top ring use the values
\* drawn before the loop, a ring between them draws three new values
ring_variance(rng, ring, num_rings, radius, radial_variance) ==
    LET bvr == random_range(rng, 0, FSub(FDiv(radius, F(2)), radial_variance),
                            FDiv(radius, F(2)))
        tvr == random_range(rng, 3, FSub(radius, radial_variance), radius)
        k == 6 + 3 * (ring - 1)
    IN  IF ring = 0 THEN <<bvr, next_f32(rng, 1), next_f32(rng, 2)>>
        ELSE IF ring = num_rings - 1
        THEN <<tvr, next_f32(rng, 4), next_f32(rng, 5)>>
        ELSE <<random_range(rng, k, FSub(radius, radial_variance), radius),
               next_f32(rng, k + 1), next_f32(rng, k + 2)>>

\* let offset = (horizontal_variance * vx, horizontal_variance * vz);
variance_offset(horizontal_variance, v) ==
    <<FMul(horizontal_variance, v[2]), FMul(horizontal_variance, v[3])>>

staff_rings(rng, radius, radial_variance, half_height, resolution, segments, horizontal_variance, num_rings) ==
    Flatten([r \in 1..num_rings |->
        LET v == ring_variance(rng, r - 1, num_rings, radius, radial_variance)
        IN  ring_vertices(v[1], variance_offset(horizontal_variance, v),
                          ring_y(half_height, segments, r - 1), resolution,
                          r - 1)])

\* staff_build_cap with both caps centred on the axis
staff_build_cap_centred(top, offset, rng, radius, radial_variance, half_height, resolution, horizontal_variance) ==
    LET bvr == random_range(rng, 0, FSub(FDiv(radius, F(2)), radial_variance),
                            FDiv(radius, F(2)))
        tvr == random_range(rng, 3, FSub(radius, radial_variance), radius)
    IN  build_cap(top, offset, IF top THEN tvr ELSE bvr, <<0, 0>>,
                  half_height, resolution)

\* build_cap of the staff: the cap takes (tvr, tvx, tvz) or (bvr, bvx, bvz)
staff_build_cap(top, offset, rng, radius, radial_variance, half_height, resolution, horizontal_variance) ==
    LET bvr == random_range(rng, 0, FSub(FDiv(radius, F(2)), radial_variance),
                            FDiv(radius, F(2)))
        tvr == random_range(rng, 3, FSub(radius, radial_variance), radius)
        v == IF top THEN <<tvr, next_f32(rng, 4), next_f32(rng, 5)>>
             ELSE <<bvr, next_f32(rng, 1), next_f32(rng, 2)>>
    IN  build_cap(top, offset, v[1], variance_offset(horizontal_variance, v),
                  half_height, resolution)

\* draws taken by one call: six before the loop, three per ring between
\* the bottom and the top ring
staff_draws(num_rings) == 6 + 3 * (IF num_rings > 2 THEN num_rings - 2 ELSE 0)

generate_staff_mesh(radius, radial_variance, height, resolution, segments, horizontal_variance, build, rng) ==
    LET half_height == FDiv(height, F(2))
        pre == precompute(resolution, segments, build)
        rings == staff_rings(rng, radius, radial_variance, half_height,
                             resolution, segments, horizontal_variance,
                             pre.num_rings)
        top == staff_build_cap(TRUE, Len(rings), rng, radius, radial_variance,
                               half_height, resolution, horizontal_variance)
        bottom == staff_build_cap(FALSE, Len(rings) + resolution, rng, radius,
                                  radial_variance, half_height, resolution,
                                  horizontal_variance)
    IN  IF pre.abort # "none" THEN Aborted(pre.abort)
        ELSE assemble(pre, rings, top, bottom, barrel_skin(resolution, segments))

----------------------------------------------------------------------------
(* cone.rs *)

\* let num_vertices = resolution as usize * 2 + 1;
\* let num_indices = resolution as usize * 6 - 6;
\* resolution 0 takes the usize below zero: a panic with overflow checks,
\* and without them a capacity no Vec can have.
cone_precompute(resolution, build) ==
    [abort |-> IF resolution * 6 - 6 >= 0 THEN "none"
               ELSE IF build.overflow_checks THEN "overflow_panic"
               ELSE "capacity_overflow",
     num_vertices |-> resolution * 2 + 1,
     num_indices |-> resolution * 6 - 6]

\* the tip of the cone
cone_tip(half_height) ==
    [position |-> <<0, half_height, 0>>, normal |-> <<0, 0, 0>>,
     uv |-> <<Scale \div 2, Scale \div 2>>]

\* bottom vertices for the lateral surface: `for segment in 0..resolution`
cone_lateral_vertices(height, radius, half_height, resolution) ==
    LET normal_slope == FDiv(radius, height)
        normalization_factor ==
            FDiv(F(1), FSqrt(FAdd(F(1), FMul(normal_slope, normal_slope))))
    IN  [k \in 1..resolution |->
            LET sc == sin_cos(k - 1, resolution)
            IN  [position |-> <<FMul(radius, sc.cos), FNeg(half_height),
                                FMul(radius, sc.sin)>>,
                 normal |-> <<FMul(sc.cos, normalization_factor),
                              FMul(normal_slope, normalization_factor),
                              FMul(sc.sin, normalization_factor)>>,
                 uv |-> <<FAdd(Scale \div 2, FMul(sc.cos, Scale \div 2)),
                          FAdd(Scale \div 2, FMul(sc.sin, Scale \div 2))>>]]

\* for j in 1..resolution { [0, j + 1, j] } and the closing [0, 1, resolution]
cone_lateral_indices(resolution) ==
    Flatten([j \in 1..(resolution - 1) |-> <<0, j + 1, j>>])
        \o <<0, 1, resolution>>

\* for i in 1..(resolution - 1) { [index_offset, index_offset + i, index_offset + i + 1] }
cone_base_indices(index_offset, resolution) ==
    Flatten([i \in 1..(resolution - 2) |->
        <<index_offset, index_offset + i, index_offset + i + 1>>])

generate_cone_mesh(height, radius, resolution, build) ==
    LET half_height == FDiv(height, F(2))
        pre == cone_precompute(resolution, build)
        side == <<cone_tip(half_height)>>
                    \o cone_lateral_vertices(height, radius, half_height,
                                             resolution)
        index_offset == Len(side)
        base == cap_vertices(FALSE, radius, <<0, 0>>, half_height, resolution)
    IN  IF pre.abort # "none" THEN Aborted(pre.abort)
        ELSE [outcome |-> "returned",
              mesh |-> MakeMesh(side \o base,
                                cone_lateral_indices(resolution)
                                    \o cone_base_indices(index_offset, resolution)),
              capacity |-> [num_vertices |-> pre.num_vertices,
                            num_indices |-> pre.num_indices]]

----------------------------------------------------------------------------
(* environment.rs *)

FLOOR_HEIGHT == F(1)

----------------------------------------------------------------------------
(* cylinder.rs: the cached normals *)

Add3(a, b) == <<FAdd(a[1], b[1]), FAdd(a[2], b[2]), FAdd(a[3], b[3])>>

\* gizmos.arrow(origin + positions[i], origin + end, WHITE); i counts from 0
draw_gizmos(normals, end, i) ==
    [start |-> Add3(normals.origin, normals.positions[i + 1]),
     end |-> Add3(normals.origin, end)]

\* for i in 0..positions.len(): positions[i] + directions[i] panics on the
\* first i that directions does not have
RECURSIVE arrows_from(_, _)
arrows_from(normals, i) ==
    IF i >= Len(normals.positions)
    THEN [outcome |-> "drawn", arrows |-> <<>>]
    ELSE IF i >= Len(normals.directions)
    THEN [outcome |-> "index_out_of_bounds", arrows |-> <<>>]
    ELSE LET end == Add3(normals.positions[i + 1], normals.directions[i + 1])
             rest == arrows_from(normals, i + 1)
         IN  [outcome |-> rest.outcome,
              arrows |-> <<draw_gizmos(normals, end, i)>> \o rest.arrows]

\* the system holds the resource mutably and hands back what it leaves in it
display_cylinder_vertex_normals_clearing(crystal_normals) ==
    [system |-> "display_cylinder_vertex_normals",
     normals |-> [crystal_normals EXCEPT !.positions = <<>>,
                                         !.directions = <<>>],
     drawn |-> arrows_from(crystal_normals, 0)]

display_cylinder_vertex_normals(crystal_normals) ==
    [system |-> "display_cylinder_vertex_normals",
     normals |-> crystal_normals,
     drawn |-> arrows_from(crystal_normals, 0)]

\* radius 0.5, height 1, resolution 6, segments 1
spawn_cylinder_mesh(crystal_normals, build) ==
    LET radius == Scale \div 2
        height == F(1)
        resolution == 6
        segments == 1
        r == generate_cylinder_mesh(radius, height, resolution, segments, build)
        normals == [push_normals(crystal_normals, r.mesh) EXCEPT
                       !.origin = <<F(-1),
                                    FAdd(FDiv(height, F(2)),
                                         FDiv(FLOOR_HEIGHT, F(2))),
                                    F(1)>>]
    IN  [generated |-> r,
         call |-> [gen |-> "cylinder", radius |-> radius, height |-> height,
                   resolution |-> resolution, segments |-> segments,
                   build |-> build],
         normals |-> normals,
         entity |-> [mesh |-> "cylinder", translation |-> normals.origin]]

----------------------------------------------------------------------------
(* cube.rs *)

cube_positions ==
    << <<-5000, 5000, -5000>>, <<5000, 5000, -5000>>,
       <<5000, 5000, 5000>>, <<-5000, 5000, 5000>>,
       <<-5000, -5000, -5000>>, <<5000, -5000, -5000>>,
       <<5000, -5000, 5000>>, <<-5000, -5000, 5000>>,
       <<5000, -5000, -5000>>, <<5000, -5000, 5000>>,
       <<5000, 5000, 5000>>, <<5000, 5000, -5000>>,
       <<-5000, -5000, -5000>>, <<-5000, -5000, 5000>>,
       <<-5000, 5000, 5000>>, <<-5000, 5000, -5000>>,
       <<-5000, -5000, 5000>>, <<-5000, 5000, 5000>>,
       <<5000, 5000, 5000>>, <<5000, -5000, 5000>>,
       <<-5000, -5000, -5000>>, <<-5000, 5000, -5000>>,
       <<5000, 5000, -5000>>, <<5000, -5000, -5000>> >>

\* the normal of each of the six sides, four times: +y, -y, +x, -x, +z, -z
cube_side_normals ==
    << <<0, 10000, 0>>, <<0, -10000, 0>>, <<10000, 0, 0>>,
       <<-10000, 0, 0>>, <<0, 0, 10000>>, <<0, 0, -10000>> >>

cube_directions == [k \in 1..24 |-> cube_side_normals[((k - 1) \div 4) + 1]]

cube_uvs ==
    << <<0, 2000>>, <<0, 0>>, <<10000, 0>>, <<10000, 2000>>,
       <<0, 4500>>, <<0, 2500>>, <<10000, 2500>>, <<10000, 4500>>,
       <<10000, 4500>>, <<0, 4500>>, <<0, 2000>>, <<10000, 2000>>,
       <<10000, 4500>>, <<0, 4500>>, <<0, 2000>>, <<10000, 2000>>,
       <<0, 4500>>, <<0, 2000>>, <<10000, 2000>>, <<10000, 4500>>,
       <<0, 4500>>, <<0, 2000>>, <<10000, 2000>>, <<10000, 4500>> >>

cube_indices_top_reversed ==
    <<0, 1, 3, 1, 3, 2,
      4, 5, 7, 5, 6, 7,
      8, 11, 9, 9, 11, 10,
      12, 13, 15, 13, 14, 15,
      16, 19, 17, 17, 19, 18,
      20, 21, 23, 21, 22, 23>>

cube_indices ==
    <<0, 3, 1, 1, 3, 2,
      4, 5, 7, 5, 6, 7,
      8, 11, 9, 9, 11, 10,
      12, 13, 15, 13, 14, 15,
      16, 19, 17, 17, 19, 18,
      20, 21, 23, 21, 22, 23>>

\* the container's two vectors are replaced; the mesh holds clones of them
generate_cube_mesh(container) ==
    LET normals == [container EXCEPT !.positions = cube_positions,
                                        !.directions = cube_directions]
    IN  [outcome |-> "returned",
         mesh |-> [positions |-> normals.positions,
                   normals |-> normals.directions,
                   uvs |-> cube_uvs, indices |-> cube_indices],
         capacity |-> NoCapacity,
         normals |-> normals]

spawn_cube_mesh(container) ==
    LET r == generate_cube_mesh(container)
        normals == [r.normals EXCEPT !.origin = <<F(1), F(1), F(1)>>]
    IN  [generated |-> r,
         normals |-> normals,
         entity |-> [mesh |-> "cube", translation |-> normals.origin]]

display_cube_vertex_normals(container) ==
    [system |-> "display_cube_vertex_normals",
     normals |-> container,
     drawn |-> arrows_from(container, 0)]

----------------------------------------------------------------------------
(* camera.rs *)

CAMERA_DISTANCE == 35000

CAMERA_TARGET == <<0, 15000, 0>>

FRAC_PI_2 == 15708

PI == 31416

TAU == 62832

\* impl Default for CameraSettings
CameraSettings_default ==
    LET pitch_limit == FRAC_PI_2 - 100
    IN  [orbit_distance |-> FMul(CAMERA_DISTANCE, 15000),
         pitch_speed |-> 100,
         pitch_range |-> [start |-> -pitch_limit, end |-> 0],
         yaw_speed |-> 75]

\* An angle brought into [-PI, PI)
wrap_angle(a) == ((a + PI) % TAU) - PI

\* A rotation is kept as the (yaw, pitch, roll) that to_euler(EulerRot::YXZ)
\* reads from it: pitch in [-PI/2, PI/2], yaw and roll in [-PI, PI).
\* Quat::from_euler(EulerRot::YXZ, yaw, pitch, roll): a pitch beyond a
\* quarter turn is the same rotation as the mirrored pitch with yaw and
\* roll turned by PI.
from_euler(yaw, pitch, roll) ==
    LET p == wrap_angle(pitch)
    IN  IF p > FRAC_PI_2
        THEN [yaw |-> wrap_angle(yaw + PI), pitch |-> PI - p,
              roll |-> wrap_angle(roll + PI)]
        ELSE IF p < -FRAC_PI_2
        THEN [yaw |-> wrap_angle(yaw + PI), pitch |-> -PI - p,
              roll |-> wrap_angle(roll + PI)]
        ELSE [yaw |-> wrap_angle(yaw), pitch |-> p, roll |-> wrap_angle(roll)]

\* rotation.to_euler(EulerRot::YXZ)
to_euler(rot) == <<rot.yaw, rot.pitch, rot.roll>>

\* Transform::forward(): the unit vector rotation * -Z, given by its yaw and
\* pitch; roll turns about it and leaves it alone
forward(rot) == [yaw |-> rot.yaw, pitch |-> rot.pitch]

\* The point target - direction * distance
orbit_point(target, direction, distance) ==
    [target |-> target, direction |-> direction, distance |-> distance]

\* clamp that forgets the lower limit
clamp_upper_only(x, min, max) == IF x > max THEN max ELSE x

\* f32::clamp
clamp(x, min, max) == IF x < min THEN min ELSE IF x > max THEN max ELSE x

\* Transform::from_xyz(-CAMERA_DISTANCE, CAMERA_DISTANCE / 2., CAMERA_DISTANCE)
\*     .looking_at(CAMERA_TARGET, Dir3::Y)
\* The camera looks along (3.5, -0.25, -3.5): yaw -PI/4, pitch
\* -asin(0.25 / 4.9561) = -0.0505, no roll, 4.9561 away from the target.
setup_camera_rig ==
    LET rot == [yaw |-> -(FRAC_PI_2 \div 2), pitch |-> -505, roll |-> 0]
    IN  [rotation |-> rot,
         translation |-> orbit_point(CAMERA_TARGET, forward(rot), 49561)]

MouseButton == {"Left", "Right", "Middle"}

\* drag_held taking any button for a drag button
drag_held_any(pressed) == pressed # {}

\* whether the frame drags the camera
drag_held(pressed) == "Right" \in pressed \/ "Middle" \in pressed

\* new_pitch with the range of the Bevy example, as far up as down
new_pitch_symmetric(pitch, delta_pitch, settings) ==
    clamp(pitch - delta_pitch, settings.pitch_range.start,
          -settings.pitch_range.start)

\* the new pitch: the old one less delta_pitch, kept in pitch_range
new_pitch(pitch, delta_pitch, settings) ==
    clamp(pitch - delta_pitch, settings.pitch_range.start,
          settings.pitch_range.end)

\* handle_camera_movement placing the camera along the forward vector it
\* had before the rotation was written
handle_camera_movement_stale(camera_pivot, pressed, settings, delta) ==
    IF drag_held(pressed)
    THEN LET delta_pitch == FMul(delta[2], settings.pitch_speed)
             delta_yaw == FMul(delta[1], settings.yaw_speed)
             e == to_euler(camera_pivot.rotation)
             pitch == new_pitch(e[2], delta_pitch, settings)
             yaw == e[1] - delta_yaw
             rot == from_euler(yaw, pitch, e[3])
         IN  [rotation |-> rot,
              translation |-> orbit_point(CAMERA_TARGET,
                                          forward(camera_pivot.rotation),
                                          settings.orbit_distance)]
    ELSE camera_pivot

handle_camera_movement(camera_pivot, pressed, settings, delta) ==
    IF drag_held(pressed)
    THEN LET delta_pitch == FMul(delta[2], settings.pitch_speed)
             delta_yaw == FMul(delta[1], settings.yaw_speed)
             e == to_euler(camera_pivot.rotation)
             pitch == new_pitch(e[2], delta_pitch, settings)
             yaw == e[1] - delta_yaw
             rot == from_euler(yaw, pitch, e[3])
         IN  [rotation |-> rot,
              translation |-> orbit_point(CAMERA_TARGET, forward(rot),
                                          settings.orbit_distance)]
    ELSE camera_pivot

----------------------------------------------------------------------------
(* State and actions *)

\* the builds of the crate: debug assertions and overflow checks are
\* switched by the profile; alloc_ok is whether the allocator grants a
\* capacity that wrapped around
Builds == [debug_assertions : BOOLEAN, overflow_checks : BOOLEAN,
           alloc_ok : BOOLEAN]

Resolutions == 0..MaxRes

SegmentCounts == 0..MaxSeg

\* radius 0.25 and 0.5, height 0.25, 1 and 2
Radii == {2500, 5000}

Heights == {2500, 10000, 20000}

\* the draws of the generator: the least f32 in [0, 1) and one near 1
UnitDraws == {0, 9999}

Streams == [1..6 -> UnitDraws]

\* the arguments of spawn_staff_mesh: radius 0.05, radial_variance
\* radius * 0.5, height 2, horizontal_variance height * 0.05
StaffArgs == [radius |-> 500, radial_variance |-> FMul(500, 5000),
              height |-> 20000, horizontal_variance |-> FMul(20000, 500)]

NoArgs == [gen |-> "none", radius |-> 0, height |-> 0, resolution |-> 0,
           segments |-> 0, build |-> [debug_assertions |-> FALSE,
                                      overflow_checks |-> FALSE,
                                      alloc_ok |-> TRUE]]

EmptyNormals == [positions |-> <<>>, directions |-> <<>>, origin |-> <<0, 0, 0>>]

NoGizmos == [system |-> "none", outcome |-> "none", arrows |-> <<>>]

NoInput == [pressed |-> {}, delta |-> <<0, 0>>]

\* A loop over 1..(resolution - 1) with resolution 0 and no check runs 2^32
\* times; the model leaves that call out.  A wrapped capacity is the only
\* place where the allocator decides.
Modelled(resolution, segments, build) ==
    /\ resolution > 0 \/ build.debug_assertions \/ build.overflow_checks
    /\ build.alloc_ok \/ precompute(resolution, segments, build).num_indices < 0

Init ==
    /\ args = NoArgs
    /\ outcome = "not_called"
    /\ mesh = EmptyMesh
    /\ capacity = NoCapacity
    /\ cylinder_normals = EmptyNormals
    /\ rand = [stream |-> <<0>>, pos |-> 0]
    /\ rotation = setup_camera_rig.rotation
    /\ translation = setup_camera_rig.translation
    /\ input = NoInput
    /\ before = setup_camera_rig
    /\ frame = 0
    /\ cube_normals = EmptyNormals
    /\ gizmos = NoGizmos
    /\ spawned = {}
    /\ calls = 0

Returns(r) ==
    /\ outcome' = r.outcome
    /\ mesh' = r.mesh
    /\ capacity' = r.capacity

GenerateCylinderMesh ==
    /\ outcome = "not_called"
    /\ \E radius \in Radii, height \in Heights, resolution \in Resolutions,
          segments \in SegmentCounts, build \in Builds :
        /\ Modelled(resolution, segments, build)
        /\ LET r == generate_cylinder_mesh(radius, height, resolution,
                                           segments, build)
           IN  /\ Returns(r)
               /\ cylinder_normals' = push_normals(cylinder_normals, r.mesh)
        /\ args' = [gen |-> "cylinder", radius |-> radius, height |-> height,
                    resolution |-> resolution, segments |-> segments,
                    build |-> build]
    /\ UNCHANGED <<rand, cameraVars, sceneVars>>

GenerateCrystalMesh ==
    /\ outcome = "not_called"
    /\ \E radius \in Radii, height \in Heights, resolution \in Resolutions,
          build \in Builds :
        /\ Modelled(resolution, crystal_segments, build)
        /\ Returns(generate_crystal_mesh(radius, height, resolution, build))
        /\ args' = [gen |-> "crystal", radius |-> radius, height |-> height,
                    resolution |-> resolution, segments |-> crystal_segments,
                    build |-> build]
    /\ UNCHANGED <<cylinder_normals, rand, cameraVars, sceneVars>>

GenerateStaffMesh ==
    /\ outcome = "not_called"
    /\ \E stream \in Streams, resolution \in Resolutions,
          segments \in SegmentCounts, build \in Builds :
        /\ Modelled(resolution, segments, build)
        /\ LET rng == [stream |-> stream, pos |-> 0]
               r == generate_staff_mesh(StaffArgs.radius,
                        StaffArgs.radial_variance, StaffArgs.height,
                        resolution, segments, StaffArgs.horizontal_variance,
                        build, rng)
           IN  /\ Returns(r)
               /\ rand' = [rng EXCEPT !.pos =
                            IF r.outcome = "returned"
                            THEN staff_draws(segments + 1) ELSE 0]
        /\ args' = [gen |-> "staff", radius |-> StaffArgs.radius,
                    height |-> StaffArgs.height, resolution |-> resolution,
                    segments |-> segments, build |-> build]
    /\ UNCHANGED <<cylinder_normals, cameraVars, sceneVars>>

GenerateConeMesh ==
    /\ outcome = "not_called"
    /\ \E radius \in Radii, height \in Heights, resolution \in Resolutions,
          build \in Builds :
        /\ build.alloc_ok
        /\ Returns(generate_cone_mesh(height, radius, resolution, build))
        /\ args' = [gen |-> "cone", radius |-> radius, height |-> height,
                    resolution |-> resolution, segments |-> 0,
                    build |-> build]
    /\ UNCHANGED <<cylinder_normals, rand, cameraVars, sceneVars>>

MeshNext ==
    \/ GenerateCylinderMesh
    \/ GenerateCrystalMesh
    \/ GenerateStaffMesh
    \/ GenerateConeMesh

MeshSpec == Init /\ [][MeshNext]_vars

\* pointer motion accumulated over a frame, in pixels
DeltaX == {-112, 0, 112}

DeltaY == {-25, 0, 25, 200}

\* One frame of the Update schedule, its input drawn from the given sets
CameraFrame(buttons, xs, ys) ==
    /\ frame < MaxFrames
    /\ \E pressed \in buttons, dx \in xs, dy \in ys :
        LET camera_pivot == [rotation |-> rotation, translation |-> translation]
            delta == <<F(dx), F(dy)>>
            t == handle_camera_movement(camera_pivot, pressed,
                                        CameraSettings_default, delta)
        IN  /\ rotation' = t.rotation
            /\ translation' = t.translation
            /\ input' = [pressed |-> pressed, delta |-> delta]
            /\ before' = camera_pivot
    /\ frame' = frame + 1
    /\ UNCHANGED <<meshVars, sceneVars>>

HandleCameraMovement == CameraFrame(SUBSET MouseButton, DeltaX, DeltaY)

CameraNext == HandleCameraMovement

CameraSpec == Init /\ [][CameraNext]_vars

\* The scene: the Startup spawns, further calls of the two generators that
\* cache their normals, and the systems run every frame.

\* the dev and the release profile; one binary is one build
SceneBuilds == {[debug_assertions |-> TRUE, overflow_checks |-> TRUE,
                 alloc_ok |-> TRUE],
                [debug_assertions |-> FALSE, overflow_checks |-> FALSE,
                 alloc_ok |-> TRUE]}

SameBinary(build) == args.gen = "none" \/ args.build = build

\* resolutions of the further cylinder calls: one below the asserted
\* minimum and the minimum
CallResolutions == {2, 3}

\* a panic ends the process
Running ==
    /\ outcome \in {"not_called", "returned"}
    /\ gizmos.outcome # "index_out_of_bounds"

Spawned(name) == \E e \in spawned : e.mesh = name

CubeArgs(build) == [NoArgs EXCEPT !.gen = "cube", !.build = build]

SpawnCubeMesh ==
    /\ Running
    /\ ~Spawned("cube")
    /\ \E build \in SceneBuilds :
        /\ SameBinary(build)
        /\ LET s == spawn_cube_mesh(cube_normals)
           IN  /\ Returns(s.generated)
               /\ cube_normals' = s.normals
               /\ spawned' = spawned \cup {s.entity}
        /\ args' = CubeArgs(build)
    /\ UNCHANGED <<cylinder_normals, rand, gizmos, calls, cameraVars>>

SpawnCylinderMesh ==
    /\ Running
    /\ ~Spawned("cylinder")
    /\ \E build \in SceneBuilds :
        /\ SameBinary(build)
        /\ LET s == spawn_cylinder_mesh(cylinder_normals, build)
           IN  /\ Returns(s.generated)
               /\ cylinder_normals' = s.normals
               /\ spawned' = spawned \cup {s.entity}
               /\ args' = s.call
    /\ UNCHANGED <<cube_normals, rand, gizmos, calls, cameraVars>>

CallGenerateCubeMesh ==
    /\ Running
    /\ calls < MaxCalls
    /\ \E build \in SceneBuilds :
        /\ SameBinary(build)
        /\ LET r == generate_cube_mesh(cube_normals)
           IN  /\ Returns(r)
               /\ cube_normals' = r.normals
        /\ args' = CubeArgs(build)
    /\ calls' = calls + 1
    /\ UNCHANGED <<cylinder_normals, rand, gizmos, spawned, cameraVars>>

CallGenerateCylinderMesh ==
    /\ Running
    /\ calls < MaxCalls
    /\ \E build \in SceneBuilds, resolution \in CallResolutions :
        /\ SameBinary(build)
        /\ LET radius == Scale \div 2
               height == F(1)
               r == generate_cylinder_mesh(radius, height, resolution, 1, build)
           IN  /\ Returns(r)
               /\ cylinder_normals' = push_normals(cylinder_normals, r.mesh)
               /\ args' = [gen |-> "cylinder", radius |-> radius,
                           height |-> height, resolution |-> resolution,
                           segments |-> 1, build |-> build]
    /\ calls' = calls + 1
    /\ UNCHANGED <<cube_normals, rand, gizmos, spawned, cameraVars>>

Draws(d) == [system |-> d.system, outcome |-> d.drawn.outcome,
             arrows |-> d.drawn.arrows]

DisplayCubeVertexNormals ==
    /\ Running
    /\ LET d == display_cube_vertex_normals(cube_normals)
       IN  /\ cube_normals' = d.normals
           /\ gizmos' = Draws(d)
    /\ UNCHANGED <<meshVars, spawned, calls, cameraVars>>

DisplayCylinderVertexNormals ==
    /\ Running
    /\ LET d == display_cylinder_vertex_normals(cylinder_normals)
       IN  /\ cylinder_normals' = d.normals
           /\ gizmos' = Draws(d)
    /\ UNCHANGED <<args, outcome, mesh, capacity, rand, cube_normals,
                   spawned, calls, cameraVars>>

\* a frame of the camera with the right button held
OrbitFrame == Running /\ CameraFrame({{"Right"}}, {112}, {25})

SceneNext ==
    \/ SpawnCubeMesh
    \/ SpawnCylinderMesh
    \/ CallGenerateCubeMesh
    \/ CallGenerateCylinderMesh
    \/ DisplayCubeVertexNormals
    \/ DisplayCylinderVertexNormals
    \/ OrbitFrame

SceneSpec == Init /\ [][SceneNext]_vars

----------------------------------------------------------------------------
(* Properties of the generated meshes *)

RingGenerators == {"cylinder", "crystal", "staff"}

\* a call within the generator's contract that returned a mesh
ValidRingCall ==
    /\ outcome = "returned"
    /\ args.gen \in RingGenerators
    /\ args.resolution >= 3
    /\ args.segments >= 1

ValidConeCall ==
    /\ outcome = "returned"
    /\ args.gen = "cone"
    /\ args.resolution >= 3

NumVertices == Len(mesh.positions)

NumIndices == Len(mesh.indices)

\* C1: every index emitted by a ring generator (resolution >= 3, segments
\* >= 1) or by the cone generator (resolution >= 3) is less than the number
\* of vertices pushed by the same call.
C1_IndicesInBounds ==
    (ValidRingCall \/ ValidConeCall) =>
        \A k \in 1..NumIndices :
            mesh.indices[k] >= 0 /\ mesh.indices[k] < NumVertices

\* the last vertex is referenced: the bound of C1 is met with no slack
C1_Witness ==
    /\ ValidRingCall
    /\ args.gen = "staff"
    /\ args.segments = 2
    /\ \E k \in 1..NumIndices : mesh.indices[k] = NumVertices - 1

\* C2: a ring generator emits 2*resolution + (segments+1)*(resolution+1)
\* vertices, the capacity num_vertices computed beforehand: segments+1 rings
\* of resolution+1 lateral vertices each, running from u = 0 to the seam at
\* u = 1, then a top cap and a bottom cap of resolution vertices each.
C2_VertexCount ==
    ValidRingCall =>
        LET res == args.resolution
            rings == args.segments + 1
            lateral == rings * (res + 1)
        IN  /\ NumVertices = 2 * res + rings * (res + 1)
            /\ NumVertices = capacity.num_vertices
            /\ Len(mesh.normals) = NumVertices
            /\ Len(mesh.uvs) = NumVertices
            /\ \A r \in 0..(rings - 1) :
                /\ mesh.uvs[r * (res + 1) + 1][1] = 0
                /\ mesh.uvs[(r + 1) * (res + 1)][1] = F(1)
                /\ \A k \in (r * (res + 1) + 1)..((r + 1) * (res + 1)) :
                    /\ mesh.normals[k][2] = 0
                    /\ mesh.positions[k][2] = mesh.positions[r * (res + 1) + 1][2]
            /\ \A k \in (lateral + 1)..(lateral + res) :
                    mesh.normals[k] = <<0, F(1), 0>>
            /\ \A k \in (lateral + res + 1)..NumVertices :
                    mesh.normals[k] = <<0, -F(1), 0>>

C2_Witness ==
    /\ ValidRingCall
    /\ args.gen = "crystal"
    /\ args.resolution = 4
    /\ NumVertices = 18

\* C3: the index count computed beforehand is the number of indices emitted:
\* (2*resolution*(segments-1) + 2*(resolution-1)*2)*3 for a ring generator
\* (60 indices and 26 vertices for resolution 6, segments 1), and
\* 6*resolution - 6 indices and 2*resolution + 1 vertices for the cone.
C3_IndexCount ==
    /\ ValidRingCall =>
        /\ NumIndices = capacity.num_indices
        /\ NumIndices = (2 * args.resolution * (args.segments - 1)
                            + 2 * (args.resolution - 1) * 2) * 3
        /\ (args.resolution = 6 /\ args.segments = 1) =>
                (NumIndices = 60 /\ NumVertices = 26)
    /\ ValidConeCall =>
        /\ NumIndices = capacity.num_indices
        /\ NumIndices = 6 * args.resolution - 6
        /\ NumVertices = capacity.num_vertices
        /\ NumVertices = 2 * args.resolution + 1

C3_Witness ==
    /\ ValidRingCall
    /\ args.gen = "cylinder"
    /\ args.resolution = 6
    /\ args.segments = 1
    /\ NumIndices = 60

----------------------------------------------------------------------------
(* Winding *)

Sub3(a, b) == <<a[1] - b[1], a[2] - b[2], a[3] - b[3]>>

Cross(u, v) == <<u[2] * v[3] - u[3] * v[2],
                 u[3] * v[1] - u[1] * v[3],
                 u[1] * v[2] - u[2] * v[1]>>

\* the three corners of triangle t (counted from 0) of the index list
Corner(t, c) == mesh.positions[mesh.indices[3 * t + c] + 1]

\* The orientation of triangle t by vertex order: the normal of its front,
\* the side from which its corners run counter-clockwise
Orientation(t) ==
    Cross(Sub3(Corner(t, 2), Corner(t, 1)), Sub3(Corner(t, 3), Corner(t, 1)))

\* the direction away from the axis between angular steps j and j + 1
Radial(j) ==
    LET a == sin_cos(j, args.resolution)
        b == sin_cos(j + 1, args.resolution)
    IN  <<a.cos + b.cos, a.sin + b.sin>>

\* triangle t faces away from the axis at angular step j
FacesRadially(t, j) ==
    LET n == Orientation(t)
        out == Radial(j)
    IN  (n[1] \div Scale) * out[1] + (n[3] \div Scale) * out[2] > 0

FacesUp(t) == Orientation(t)[1] = 0 /\ Orientation(t)[3] = 0 /\ Orientation(t)[2] > 0

FacesDown(t) == Orientation(t)[1] = 0 /\ Orientation(t)[3] = 0 /\ Orientation(t)[2] < 0

\* Triangles of a ring generator's index list, counted from 0: the barrel,
\* two per angular step and ring pair, then the top fan, then the bottom fan
BarrelTriangles == 2 * args.resolution * args.segments

FanTriangles == args.resolution - 2

RingMeshWoundOutward ==
    /\ \A t \in 0..(BarrelTriangles - 1) :
            FacesRadially(t, (t \div 2) % args.resolution)
    /\ \A t \in BarrelTriangles..(BarrelTriangles + FanTriangles - 1) :
            FacesUp(t)
    /\ \A t \in (BarrelTriangles + FanTriangles)
                    ..(BarrelTriangles + 2 * FanTriangles - 1) :
            FacesDown(t)
    \* the two fans run through their vertices in opposite orders
    /\ \A k \in 0..(FanTriangles - 1) :
        LET top == 3 * (BarrelTriangles + k)
            bot == 3 * (BarrelTriangles + FanTriangles + k)
        IN  /\ mesh.indices[top + 2] - mesh.indices[top + 1]
                = mesh.indices[bot + 3] - mesh.indices[bot + 1]
            /\ mesh.indices[top + 3] - mesh.indices[top + 1]
                = mesh.indices[bot + 2] - mesh.indices[bot + 1]
            /\ mesh.indices[top + 2] # mesh.indices[top + 3]

\* Triangles of the cone: resolution lateral ones, the closing one last,
\* then the base fan
ConeMeshWoundOutward ==
    /\ \A t \in 0..(args.resolution - 1) :
            FacesRadially(t, t) /\ Orientation(t)[2] > 0
    /\ \A t \in args.resolution..(2 * args.resolution - 3) : FacesDown(t)

\* C4: every triangle of a revolved-solid generator is wound outward: barrel
\* (and cone side) triangles face away from the axis, top-cap triangles face
\* +Y, bottom-cap and cone-base triangles face -Y, and the two caps of a ring
\* generator run through their vertices in opposite orders.
C4_WoundOutward ==
    /\ ValidRingCall => RingMeshWoundOutward
    /\ ValidConeCall => ConeMeshWoundOutward

----------------------------------------------------------------------------
(* Properties of the camera *)

Settings == CameraSettings_default

FrameRan == frame > 0

\* Right or Middle was pressed in the last frame
DragButtonHeld == "Right" \in input.pressed \/ "Middle" \in input.pressed

DragFrame == FrameRan /\ DragButtonHeld

\* C5: in every state reachable from the initial rig by any frames, the
\* pitch lies in the closed range [-(PI/2 - 0.01), 0] of
\* CameraSettings::default.
C5_PitchInRange ==
    /\ rotation.pitch >= -(FRAC_PI_2 - 100)
    /\ rotation.pitch <= 0
    /\ Settings.pitch_range = [start |-> -(FRAC_PI_2 - 100), end |-> 0]

\* a drag that would leave the range at its upper end was held back
C5_Witness ==
    /\ DragFrame
    /\ before.rotation.pitch - FMul(input.delta[2], Settings.pitch_speed) > 0
    /\ rotation.pitch = 0

\* C6: from pitch 0 with a drag button held, a frame whose vertical delta
\* has 0 - delta.y * pitch_speed < pitch_range.start leaves the pitch equal
\* to pitch_range.start; the pitch is never below that minimum.
C6_ClampAtMinimum ==
    /\ (/\ DragFrame
        /\ before.rotation.pitch = 0
        /\ 0 - FMul(input.delta[2], Settings.pitch_speed)
                < Settings.pitch_range.start)
            => rotation.pitch = Settings.pitch_range.start
    /\ rotation.pitch >= Settings.pitch_range.start

C6_Witness ==
    /\ DragFrame
    /\ before.rotation.pitch = 0
    /\ 0 - FMul(input.delta[2], Settings.pitch_speed) < Settings.pitch_range.start
    /\ rotation.pitch = Settings.pitch_range.start

\* C7: in any reachable state, the initial one included, a frame with a drag
\* button held and pointer delta (0, 0) leaves yaw, pitch and position
\* unchanged.
C7_ZeroDeltaIdle ==
    (DragFrame /\ input.delta = <<0, 0>>) =>
        /\ rotation.yaw = before.rotation.yaw
        /\ rotation.pitch = before.rotation.pitch
        /\ translation = before.translation

\* C8: a frame with neither Right nor Middle held leaves rotation and
\* translation unchanged, whatever the delta and the other buttons, also
\* after earlier drag frames.
C8_NoDragNoChange ==
    (FrameRan /\ ~DragButtonHeld) =>
        /\ rotation = before.rotation
        /\ translation = before.translation

\* Left alone is held and the pointer moved, after an earlier drag
C8_Witness ==
    /\ frame >= 2
    /\ input.pressed = {"Left"}
    /\ input.delta[1] # 0
    /\ input.delta[2] # 0
    /\ rotation # setup_camera_rig.rotation
    /\ rotation = before.rotation

\* C9: after every frame with a drag button held, the position is
\* CAMERA_TARGET - forward(new orientation) * orbit_distance: the camera is
\* orbit_distance away from the target whatever the deltas were.
C9_OrbitPosition ==
    DragFrame =>
        /\ translation = orbit_point(CAMERA_TARGET, forward(rotation),
                                     Settings.orbit_distance)
        /\ translation.distance = FMul(CAMERA_DISTANCE, 15000)

\* the third drag frame in a row, the view turned and tilted
C9_Witness ==
    /\ DragFrame
    /\ frame >= 3
    /\ input.delta[1] # 0
    /\ input.delta[2] # 0
    /\ before.translation.distance = Settings.orbit_distance
    /\ translation # before.translation
    /\ translation.distance = Settings.orbit_distance

----------------------------------------------------------------------------
(* Arguments outside the contract *)

\* C10: a ring generator called with resolution < 3 or segments < 1 aborts
\* before any vertex or index is emitted; no mesh is returned.
C10_BadArgsAbort ==
    (/\ args.gen \in RingGenerators
     /\ args.resolution < 3 \/ args.segments < 1)
        => /\ outcome # "returned"
           /\ mesh = EmptyMesh

----------------------------------------------------------------------------
(* Properties of the cached normals *)

\* C11: when generate_cylinder_mesh or generate_cube_mesh has returned, the
\* positions and directions of its container equal, element for element,
\* the positions and normals of the mesh it has just generated.
C11_CacheEqualsMesh ==
    /\ ValidRingCall /\ args.gen = "cylinder" =>
            /\ cylinder_normals.positions = mesh.positions
            /\ cylinder_normals.directions = mesh.normals
    /\ outcome = "returned" /\ args.gen = "cube" =>
            /\ cube_normals.positions = mesh.positions
            /\ cube_normals.directions = mesh.normals

\* a step in which no generator and no spawn function ran: a frame
FrameStep == calls' = calls /\ spawned' = spawned

CubeOrigin == <<F(1), F(1), F(1)>>

CylinderOrigin == <<F(-1), F(1), F(1)>>

\* C12: no step of a frame (display_cube_vertex_normals,
\* display_cylinder_vertex_normals with draw_gizmos, handle_camera_movement)
\* changes the positions, directions or origin of either container, and the
\* origin of a container changes in one step only, the one in which its
\* spawn function generates the mesh and spawns the entity.
C12_CacheReadOnly ==
    [][/\ FrameStep => UNCHANGED <<cube_normals, cylinder_normals>>
       /\ cube_normals'.origin # cube_normals.origin =>
            /\ ~Spawned("cube") /\ Spawned("cube")'
            /\ cube_normals'.origin = CubeOrigin
            /\ cube_normals'.positions = mesh'.positions
       /\ cylinder_normals'.origin # cylinder_normals.origin =>
            /\ ~Spawned("cylinder") /\ Spawned("cylinder")'
            /\ cylinder_normals'.origin = CylinderOrigin
            /\ Len(cylinder_normals'.positions) > 0]_vars

\* both containers filled and placed at Startup, their arrows drawn and
\* the camera moved in later frames
C12_Witness ==
    /\ cube_normals.origin = CubeOrigin
    /\ cylinder_normals.origin = CylinderOrigin
    /\ Len(cube_normals.positions) = 24
    /\ gizmos.system = "display_cylinder_vertex_normals"
    /\ Len(gizmos.arrows) = Len(cylinder_normals.positions)
    /\ Len(gizmos.arrows) > 0
    /\ frame > 0

----------------------------------------------------------------------------
(* Properties of the crystal and the staff *)

\* vertex at angular step `segment` of ring `ring`, both counted from 0
RingVertex(ring, segment) ==
    mesh.positions[ring * (args.resolution + 1) + segment + 1]

\* the radius of a ring of the crystal: its vertex at angular step 0 lies
\* at (radius, y, 0)
CrystalRingRadius(ring) == RingVertex(ring, 0)[1]

\* C13: the crystal is tapered: the radius of its rings varies linearly
\* with the ring index, and the top ring's radius differs from the bottom
\* ring's.
C13_CrystalTapered ==
    ValidRingCall /\ args.gen = "crystal" =>
        /\ CrystalRingRadius(args.segments) # CrystalRingRadius(0)
        /\ \A ring \in 0..args.segments :
            (CrystalRingRadius(ring) - CrystalRingRadius(0)) * args.segments
                = (CrystalRingRadius(args.segments) - CrystalRingRadius(0)) * ring

\* vertex i of the top and of the bottom cap, which follow the rings
TopCapVertex(i) ==
    mesh.positions[(args.segments + 1) * (args.resolution + 1) + i + 1]

BottomCapVertex(i) ==
    mesh.positions[(args.segments + 1) * (args.resolution + 1)
                   + args.resolution + i + 1]

ValidStaffCall == ValidRingCall /\ args.gen = "staff"

Abs(x) == IF x < 0 THEN -x ELSE x

\* step_y = height / segments is taken without rounding
ExactStep == args.height % args.segments = 0

C15_RingUvDividesByStep ==
    ValidRingCall =>
        \A ring \in 0..args.segments, step \in 0..args.resolution :
            LET v == mesh.uvs[ring * (args.resolution + 1) + step + 1][2]
            IN  /\ step = 0 => v = (IF ring = 0 THEN NaN ELSE Inf)
                /\ step >= 1 => v = (ring * Scale) \div step

\* a ring above the bottom one: V is not finite at step 0 and 1/2 at step 2
C15_Witness ==
    /\ ValidRingCall
    /\ mesh.uvs[(args.resolution + 1) + 1][2] = Inf
    /\ mesh.uvs[(args.resolution + 1) + 3][2] = Scale \div 2
    /\ mesh.uvs[1][2] = NaN

\* the radius of an end ring of the staff: its vertex at angular step 0
\* lies at (vr + horizontal_variance * vx, y, horizontal_variance * vz)
StaffBottomRadius ==
    RingVertex(0, 0)[1] - (StaffArgs.horizontal_variance * rand.stream[2]) \div Scale

StaffTopRadius ==
    RingVertex(args.segments, 0)[1]
        - (StaffArgs.horizontal_variance * rand.stream[5]) \div Scale

----------------------------------------------------------------------------
(* Properties of the cube *)

Dot(u, v) == u[1] * v[1] + u[2] * v[2] + u[3] * v[3]

CubeIndex(t, c) == mesh.indices[3 * t + c]

\* the orientation of triangle t, its length that of twice the area
Facing(t) ==
    LET n == Orientation(t)
    IN  <<n[1] \div Scale, n[2] \div Scale, n[3] \div Scale>>

\* C16: each of the 12 triangles of the cube takes its three vertices from
\* one face (indices below 24, in the same group of four), and its
\* orientation by vertex order points the way of the normal stored for
\* each of its three vertices.
C16_CubeWoundOutward ==
    outcome = "returned" /\ args.gen = "cube" =>
        /\ Len(mesh.indices) = 36
        /\ \A t \in 0..11 : \A c \in 1..3 :
            /\ CubeIndex(t, c) \in 0..23
            /\ CubeIndex(t, c) \div 4 = CubeIndex(t, 1) \div 4
            /\ Cross(Facing(t), mesh.normals[CubeIndex(t, c) + 1]) = <<0, 0, 0>>
            /\ Dot(Facing(t), mesh.normals[CubeIndex(t, c) + 1]) > 0

C16_Witness ==
    /\ outcome = "returned"
    /\ args.gen = "cube"
    /\ Spawned("cube")
    /\ Len(mesh.positions) = 24
    /\ Orientation(0)[2] > 0

\* C18: in every state reached by calls of generate_cube_mesh and
\* generate_cylinder_mesh and runs of the display systems, the positions
\* and directions of each container have the same length, and no display
\* loop has indexed past the end of directions.
C18_SameLength ==
    /\ Len(cube_normals.positions) = Len(cube_normals.directions)
    /\ Len(cylinder_normals.positions) = Len(cylinder_normals.directions)
    /\ gizmos.outcome # "index_out_of_bounds"

\* the cylinder's container after two generations, all its arrows drawn
C18_Witness ==
    /\ Len(cylinder_normals.positions) = 40
    /\ Len(cube_normals.positions) = 24
    /\ gizmos.system = "display_cylinder_vertex_normals"
    /\ gizmos.outcome = "drawn"
    /\ Len(gizmos.arrows) = 40

====
